---- MODULE Spec2Model ----
(***************************************************************************)
(* Feed-forward network of libs/neural-network/src/lib.rs: randomized and  *)
(* explicit construction of Network / Layer / Neuron, and forward          *)
(* propagation with the ReLU activation.                                   *)
(*                                                                         *)
(* Numbers are modelled as integers with exact arithmetic (the f32 values  *)
(* that small integers denote are added and multiplied exactly).  A panic  *)
(* (a failed assert_eq!) is the record Panicked, which carries no value.   *)
(***************************************************************************)
EXTENDS Integers, Sequences, FiniteSets

VARIABLES
    pc,        \* "unbuilt" | "built" | "propagating" | "returned" | "panicked" | "unit"
    seed,      \* state the randomness source was seeded with
    rng,       \* the randomness source: [state, draws]
    built,     \* "none" | "random" | "new": the constructor that built `network`
    topology,  \* the &[LayerTopology] handed to Network::random
    network,   \* the Network: [layers |-> Seq of [neurons |-> Seq of Neuron]]
    inputs,    \* the vector handed to Network::propagate
    acc,       \* accumulator of the fold in Network::propagate
    idx,       \* number of layers the fold has applied
    output,    \* the vector Network::propagate returned
    neuron,    \* the Neuron a direct Neuron::propagate call is made on
    layer,     \* the Layer a direct Layer::propagate call is made on
    args,      \* the vector handed to that direct call
    ret        \* what that direct call produced ("none" before the call)

vars == <<pc, seed, rng, built, topology, network, inputs, acc, idx, output,
          neuron, layer, args, ret>>

netVars == <<seed, rng, built, topology, network, inputs, acc, idx, output>>
unitVars == <<neuron, layer, args, ret>>

(***************************************************************************)
(* Bounds of the explored instances.                                       *)
(***************************************************************************)
\* Spec: topologies, neuron counts and input lengths of propagated networks
MaxTopology == 3
MaxNeurons == 1
MaxInputs == 2
\* SpecBuild: topologies and neuron counts of constructed networks
MaxBuildTopology == 3
MaxBuildNeurons == 2
\* SpecNeuron: weight count and input length of a directly called neuron
MaxWeights == 2
MaxNeuronInputs == 3
\* SpecLayer: neurons per layer, weights per neuron, input length
MaxLayerNeurons == 2
MaxLayerWeights == 1
MaxLayerInputs == 2

Seeds == {0, 7}
InputValues == {-1, 2}
WeightValues == {-3, -1, 0, 2}
BiasValues == {-2, 0, 1}
NeuronInputValues == {-2, 0, 3}
LayerWeightValues == {-1, 2}
LayerBiasValues == {-1, 1}

Min(a, b) == IF a < b THEN a ELSE b

Vectors(values, maxLen) == UNION {[1..n -> values] : n \in 0..maxLen}

(***************************************************************************)
(* The randomness source (rng: &mut dyn RngCore).  A seeded deterministic  *)
(* generator: each draw advances the state and counts one draw.            *)
(***************************************************************************)
SeededRng(s) == [state |-> s, draws |-> 0]

NextU32(r) == [state |-> (5 * r.state + 3) % 32, draws |-> r.draws + 1]

\* rng.gen_range(low..high): one draw, mapped into the half-open range
GenRange(r, low, high) ==
    LET n == NextU32(r)
    IN  [value |-> low + ((n.state * (high - low)) \div 32), rng |-> n]

(***************************************************************************)
(* Randomized construction.  Every builder threads the randomness source:  *)
(* it takes the source's state and returns what it built together with the *)
(* state the source is left in.                                            *)
(***************************************************************************)
\* (0..input_size).map(|_| rng.gen_range(-1.0..1.0)).collect()
RECURSIVE DrawWeights(_, _)
DrawWeights(r, n) ==
    IF n = 0
    THEN [weights |-> <<>>, rng |-> r]
    ELSE LET prev == DrawWeights(r, n - 1)
             g == GenRange(prev.rng, -1, 1)
         IN  [weights |-> Append(prev.weights, g.value), rng |-> g.rng]

\* Bug variant: the bias is drawn before the weights.
NeuronRandomBiasFirst(r, input_size) ==
    LET b == GenRange(r, -1, 1)
        w == DrawWeights(b.rng, input_size)
    IN  [neuron |-> [weights |-> w.weights, bias |-> b.value], rng |-> w.rng]

\* Neuron::random
NeuronRandom(r, input_size) ==
    LET w == DrawWeights(r, input_size)
        b == GenRange(w.rng, -1, 1)
    IN  [neuron |-> [weights |-> w.weights, bias |-> b.value], rng |-> b.rng]

\* (0..output_size).map(|_| Neuron::random(rng, input_size)).collect()
RECURSIVE DrawNeurons(_, _, _)
DrawNeurons(r, input_size, n) ==
    IF n = 0
    THEN [neurons |-> <<>>, rng |-> r]
    ELSE LET prev == DrawNeurons(r, input_size, n - 1)
             m == NeuronRandom(prev.rng, input_size)
         IN  [neurons |-> Append(prev.neurons, m.neuron), rng |-> m.rng]

\* Bug variant: the two sizes are taken the wrong way round.
LayerRandomSwapped(r, input_size, output_size) ==
    LET d == DrawNeurons(r, output_size, input_size)
    IN  [layer |-> [neurons |-> d.neurons], rng |-> d.rng]

\* Layer::random
LayerRandom(r, input_size, output_size) ==
    LET d == DrawNeurons(r, input_size, output_size)
    IN  [layer |-> [neurons |-> d.neurons], rng |-> d.rng]

\* Bug variant: a window is produced for a slice shorter than the window.
WindowsPadded(s) ==
    IF Len(s) = 0 THEN <<>>
    ELSE IF Len(s) = 1 THEN << <<s[1], s[1]>> >>
    ELSE [i \in 1..(Len(s) - 1) |-> <<s[i], s[i + 1]>>]

\* layers.windows(2): the overlapping pairs, none when the slice is shorter than 2
Windows(s) ==
    IF Len(s) < 2 THEN <<>>
    ELSE [i \in 1..(Len(s) - 1) |-> <<s[i], s[i + 1]>>]

\* .map(|layers| Layer::random(rng, layers[0].output_neurons, layers[1].input_neurons))
RECURSIVE BuildLayers(_, _, _)
BuildLayers(r, windows, n) ==
    IF n = 0
    THEN [layers |-> <<>>, rng |-> r]
    ELSE LET prev == BuildLayers(r, windows, n - 1)
             w == windows[n]
             l == LayerRandom(prev.rng, w[1].output_neurons, w[2].input_neurons)
         IN  [layers |-> Append(prev.layers, l.layer), rng |-> l.rng]

\* Network::random
NetworkRandom(r, layers) ==
    LET w == Windows(layers)
        b == BuildLayers(r, w, Len(w))
    IN  [network |-> [layers |-> b.layers], rng |-> b.rng]

\* Network::new
NetworkNew(layers) == [layers |-> layers]

(***************************************************************************)
(* Propagation.                                                            *)
(***************************************************************************)
Panicked == [panicked |-> TRUE]
Returned(v) == [panicked |-> FALSE, value |-> v]

\* inputs.iter().zip(&self.weights): stops at the shorter of the two
Zip(a, b) == [i \in 1..Min(Len(a), Len(b)) |-> <<a[i], b[i]>>]

\* .map(|(input, weight)| input * weight).sum::<f32>()
RECURSIVE SumProducts(_, _)
SumProducts(pairs, n) ==
    IF n = 0 THEN 0
    ELSE SumProducts(pairs, n - 1) + pairs[n][1] * pairs[n][2]

\* f32::max
Max(a, b) == IF a < b THEN b ELSE a

\* Bug variant: the length assertion is missing.
NeuronPropagateUnchecked(n, in) ==
    LET pairs == Zip(in, n.weights)
        out == SumProducts(pairs, Len(pairs))
    IN  Returned(Max(n.bias + out, 0))

\* Bug variant: the activation is missing.
NeuronPropagateLinear(n, in) ==
    IF Len(in) # Len(n.weights)
    THEN Panicked
    ELSE LET pairs == Zip(in, n.weights)
             out == SumProducts(pairs, Len(pairs))
         IN  Returned(n.bias + out)

\* Neuron::propagate
NeuronPropagate(n, in) ==
    IF Len(in) # Len(n.weights)
    THEN Panicked
    ELSE LET pairs == Zip(in, n.weights)
             out == SumProducts(pairs, Len(pairs))
         IN  Returned(Max(n.bias + out, 0))

\* self.neurons.iter().map(|neuron| neuron.propagate(&inputs)).collect():
\* neurons are visited in order and the first panic ends the call
RECURSIVE MapNeurons(_, _, _)
MapNeurons(neurons, in, n) ==
    IF n = 0
    THEN Returned(<<>>)
    ELSE LET prev == MapNeurons(neurons, in, n - 1)
         IN  IF prev.panicked
             THEN Panicked
             ELSE LET o == NeuronPropagate(neurons[n], in)
                  IN  IF o.panicked
                      THEN Panicked
                      ELSE Returned(Append(prev.value, o.value))

\* Bug variant: the outputs come out in reverse neuron order.
LayerPropagateReversed(l, in) ==
    LET m == MapNeurons(l.neurons, in, Len(l.neurons))
    IN  IF m.panicked
        THEN Panicked
        ELSE Returned([i \in 1..Len(m.value) |-> m.value[Len(m.value) + 1 - i]])

\* Layer::propagate
LayerPropagate(l, in) == MapNeurons(l.neurons, in, Len(l.neurons))

(***************************************************************************)
(* Inputs of the explored instances.                                       *)
(***************************************************************************)
\* struct LayerTopology: both fields are usize, so 0 is a value they take
LayerTopologies(maxN) == [input_neurons : 0..maxN, output_neurons : 0..maxN]

Topologies(maxLen, maxN) == Vectors(LayerTopologies(maxN), maxLen)

\* struct Neuron, given explicitly: weights.len() = w; the values depend on the
\* neuron's position j so that neurons of one layer differ
ExplicitNeuron(w, j) == [weights |-> [k \in 1..w |-> k - j], bias |-> j - 1]

\* struct Layer, given explicitly: shape[j] is the weight count of neuron j
ExplicitLayer(shape) ==
    [neurons |-> [j \in 1..Len(shape) |-> ExplicitNeuron(shape[j], j)]]

\* the Vec<Layer> values handed to Network::new
ExplicitLayers(maxLen, maxN) ==
    Vectors({ExplicitLayer(sh) : sh \in Vectors(0..maxN, maxN)}, maxLen)

NotCalled == [called |-> FALSE]
NoNeuron == [weights |-> <<>>, bias |-> 0]
NoLayer == [neurons |-> <<>>]

(***************************************************************************)
(* Network lifecycle: one construction, then propagate calls.              *)
(***************************************************************************)
Init ==
    /\ pc = "unbuilt"
    /\ seed \in Seeds
    /\ rng = SeededRng(seed)
    /\ built = "none"
    /\ topology = <<>>
    /\ network = [layers |-> <<>>]
    /\ inputs = <<>>
    /\ acc = <<>>
    /\ idx = 0
    /\ output = NotCalled
    /\ neuron = NoNeuron
    /\ layer = NoLayer
    /\ args = <<>>
    /\ ret = NotCalled

\* Network::random(rng, t)
RandomFrom(T) ==
    /\ pc = "unbuilt"
    /\ \E t \in T :
        LET b == NetworkRandom(rng, t)
        IN  /\ topology' = t
            /\ network' = b.network
            /\ rng' = b.rng
    /\ built' = "random"
    /\ pc' = "built"
    /\ UNCHANGED <<seed, inputs, acc, idx, output>>
    /\ UNCHANGED unitVars

\* Network::new(l)
NewFrom(L) ==
    /\ pc = "unbuilt"
    /\ \E l \in L : network' = NetworkNew(l)
    /\ built' = "new"
    /\ pc' = "built"
    /\ UNCHANGED <<seed, rng, topology, inputs, acc, idx, output>>
    /\ UNCHANGED unitVars

Random == RandomFrom(Topologies(MaxTopology, MaxNeurons))
New == NewFrom(ExplicitLayers(MaxTopology - 1, MaxNeurons))

\* Network::propagate is entered: the fold starts from the caller's vector
PropagateBegin ==
    /\ pc \in {"built", "returned"}
    /\ \E v \in Vectors(InputValues, MaxInputs) :
        /\ inputs' = v
        /\ acc' = v
    /\ idx' = 0
    /\ output' = NotCalled
    /\ pc' = "propagating"
    /\ UNCHANGED <<seed, rng, built, topology, network>>
    /\ UNCHANGED unitVars

\* Bug variant: every layer is handed the caller's vector.
PropagateStepFromInputs ==
    /\ pc = "propagating"
    /\ idx < Len(network.layers)
    /\ LET r == LayerPropagate(network.layers[idx + 1], inputs)
       IN  IF r.panicked
           THEN /\ pc' = "panicked"
                /\ output' = Panicked
                /\ UNCHANGED <<acc, idx>>
           ELSE /\ acc' = r.value
                /\ idx' = idx + 1
                /\ UNCHANGED <<pc, output>>
    /\ UNCHANGED <<seed, rng, built, topology, network, inputs>>
    /\ UNCHANGED unitVars

\* one step of .fold(inputs, |inputs, layer| layer.propagate(inputs)):
\* a panic in the layer unwinds out of the fold
PropagateStep ==
    /\ pc = "propagating"
    /\ idx < Len(network.layers)
    /\ LET r == LayerPropagate(network.layers[idx + 1], acc)
       IN  IF r.panicked
           THEN /\ pc' = "panicked"
                /\ output' = Panicked
                /\ UNCHANGED <<acc, idx>>
           ELSE /\ acc' = r.value
                /\ idx' = idx + 1
                /\ UNCHANGED <<pc, output>>
    /\ UNCHANGED <<seed, rng, built, topology, network, inputs>>
    /\ UNCHANGED unitVars

\* the fold is exhausted: its accumulator is the value returned
PropagateReturn ==
    /\ pc = "propagating"
    /\ idx = Len(network.layers)
    /\ output' = Returned(acc)
    /\ pc' = "returned"
    /\ UNCHANGED <<seed, rng, built, topology, network, inputs, acc, idx>>
    /\ UNCHANGED unitVars

Next ==
    \/ Random
    \/ New
    \/ PropagateBegin
    \/ PropagateStep
    \/ PropagateReturn

Spec == Init /\ [][Next]_vars

(***************************************************************************)
(* Construction alone, over larger topologies.                             *)
(***************************************************************************)
BuildRandom == RandomFrom(Topologies(MaxBuildTopology, MaxBuildNeurons))
BuildNew == NewFrom(ExplicitLayers(MaxBuildTopology - 1, MaxBuildNeurons))

NextBuild ==
    \/ BuildRandom
    \/ BuildNew

SpecBuild == Init /\ [][NextBuild]_vars

(***************************************************************************)
(* A direct call of Neuron::propagate.                                     *)
(***************************************************************************)
Neurons == [weights : Vectors(WeightValues, MaxWeights), bias : BiasValues]

InitNeuron ==
    /\ pc = "neuron"
    /\ neuron \in Neurons
    /\ layer = NoLayer
    /\ args = <<>>
    /\ ret = NotCalled
    /\ seed = 0
    /\ rng = SeededRng(0)
    /\ built = "none"
    /\ topology = <<>>
    /\ network = [layers |-> <<>>]
    /\ inputs = <<>>
    /\ acc = <<>>
    /\ idx = 0
    /\ output = NotCalled

CallNeuronPropagate ==
    /\ pc = "neuron"
    /\ \E v \in Vectors(NeuronInputValues, MaxNeuronInputs) :
        /\ args' = v
        /\ ret' = NeuronPropagate(neuron, v)
    /\ UNCHANGED <<pc, neuron, layer>>
    /\ UNCHANGED netVars

SpecNeuron == InitNeuron /\ [][CallNeuronPropagate]_vars

(***************************************************************************)
(* A direct call of Layer::propagate.                                      *)
(***************************************************************************)
LayerNeurons ==
    [weights : Vectors(LayerWeightValues, MaxLayerWeights), bias : LayerBiasValues]

Layers == [neurons : Vectors(LayerNeurons, MaxLayerNeurons)]

InitLayer ==
    /\ pc = "layer"
    /\ layer \in Layers
    /\ neuron = NoNeuron
    /\ args = <<>>
    /\ ret = NotCalled
    /\ seed = 0
    /\ rng = SeededRng(0)
    /\ built = "none"
    /\ topology = <<>>
    /\ network = [layers |-> <<>>]
    /\ inputs = <<>>
    /\ acc = <<>>
    /\ idx = 0
    /\ output = NotCalled

CallLayerPropagate ==
    /\ pc = "layer"
    /\ \E v \in Vectors(InputValues, MaxLayerInputs) :
        /\ args' = v
        /\ ret' = LayerPropagate(layer, v)
    /\ UNCHANGED <<pc, neuron, layer>>
    /\ UNCHANGED netVars

SpecLayer == InitLayer /\ [][CallLayerPropagate]_vars

(***************************************************************************)
(* Properties.                                                             *)
(***************************************************************************)
InCall == pc \in {"propagating", "returned", "panicked"}

NumLayers == Len(network.layers)

\* sizes Network::random hands to Layer::random for layer i
InputSize(i) == topology[i].output_neurons
OutputSize(i) == topology[i + 1].input_neurons

\* every interior topology entry has input_neurons = output_neurons
InteriorConsistent(t) ==
    \A i \in 2..(Len(t) - 1) : t[i].input_neurons = t[i].output_neurons

\* the neuron count of each layer is the weight count of every neuron of the next
Adjacent(net) ==
    \A i \in 1..(Len(net.layers) - 1) :
        \A j \in 1..Len(net.layers[i + 1].neurons) :
            Len(net.layers[i + 1].neurons[j].weights) = Len(net.layers[i].neurons)

\* C1: a network built by Network::random from a topology of length N >= 2 has
\* N-1 layers; layer i has topology[i+1].input_neurons neurons, each of which
\* has topology[i].output_neurons weights.
C1_DimensionConsistency ==
    (built = "random" /\ Len(topology) >= 2) =>
        /\ NumLayers = Len(topology) - 1
        /\ \A i \in 1..(Len(topology) - 1) :
            /\ Len(network.layers[i].neurons) = OutputSize(i)
            /\ \A j \in 1..Len(network.layers[i].neurons) :
                Len(network.layers[i].neurons[j].weights) = InputSize(i)

C1_Witness ==
    /\ built = "random"
    /\ Len(topology) = 3
    /\ topology[1].output_neurons = 2
    /\ topology[2].input_neurons = 1
    /\ topology[2].output_neurons = 0
    /\ topology[3].input_neurons = 2
    /\ NumLayers = 2
    /\ Len(network.layers[1].neurons[1].weights) = 2
    /\ Len(network.layers[2].neurons) = 2

\* C2 as stated: in every network that can be built, by Network::random from any
\* topology or by Network::new from any layers, adjacent layers fit.
C2_Original == (built # "none") => Adjacent(network)

\* C2 amended: in every network built by Network::random from a topology whose
\* interior entries have input_neurons = output_neurons, the neuron count of
\* layer i equals the weight count of every neuron of layer i+1.
C2_AdjacentWhenConsistent ==
    (built = "random" /\ InteriorConsistent(topology)) => Adjacent(network)

C2_Witness ==
    /\ built = "random"
    /\ Len(topology) = 3
    /\ InteriorConsistent(topology)
    /\ topology[1].output_neurons = 1
    /\ topology[2].input_neurons = 2
    /\ topology[3].input_neurons = 1
    /\ Len(network.layers[1].neurons) = 2
    /\ Len(network.layers[2].neurons[1].weights) = 2

\* C3 as stated: Network::propagate on a network with at least one layer, given
\* an input whose length differs from the first layer's input size, never
\* returns, whatever the first layer's output size is.
C3_Original ==
    (InCall /\ built = "random" /\ NumLayers >= 1 /\ Len(inputs) # InputSize(1))
        => pc # "returned"

\* some neuron of the first layer has a weight count other than the input length
FirstLayerMismatch ==
    /\ InCall
    /\ NumLayers >= 1
    /\ \E j \in 1..Len(network.layers[1].neurons) :
        Len(network.layers[1].neurons[j].weights) # Len(inputs)

\* C3 amended: when the first layer has a neuron whose weight count differs from
\* the input length, Network::propagate never gets past the first layer and
\* never returns a vector: the call ends in the panic.
C3_MismatchNeverReturns ==
    FirstLayerMismatch =>
        /\ pc # "returned"
        /\ idx = 0
        /\ output \in {NotCalled, Panicked}

C3_Witness ==
    /\ FirstLayerMismatch
    /\ built = "random"
    /\ Len(inputs) = 2
    /\ InputSize(1) = 1
    /\ pc = "panicked"
    /\ output = Panicked

\* C4: Neuron::propagate on an input whose length differs from the weight count
\* panics and produces no value; nothing is computed from a truncated or padded
\* vector.
C4_MismatchPanics ==
    (pc = "neuron" /\ ret # NotCalled /\ Len(args) # Len(neuron.weights)) =>
        /\ ret = Panicked
        /\ "value" \notin DOMAIN ret

C4_Witness ==
    /\ pc = "neuron"
    /\ ret = Panicked
    /\ Len(args) = 1
    /\ Len(neuron.weights) = 2

\* the dot product, summed from the first pair on
RECURSIVE DotProduct(_, _)
DotProduct(x, w) ==
    IF x = <<>> \/ w = <<>> THEN 0
    ELSE Head(x) * Head(w) + DotProduct(Tail(x), Tail(w))

\* C5: on an input as long as the weights, Neuron::propagate returns 0 when
\* dot(inputs, weights) + bias is negative and dot(inputs, weights) + bias
\* otherwise.
C5_Relu ==
    (pc = "neuron" /\ ret # NotCalled /\ Len(args) = Len(neuron.weights)) =>
        LET z == DotProduct(args, neuron.weights) + neuron.bias
        IN  /\ ret.panicked = FALSE
            /\ ret.value = (IF z < 0 THEN 0 ELSE z)

C5_Witness ==
    /\ pc = "neuron"
    /\ ret # NotCalled
    /\ Len(args) = 2
    /\ Len(neuron.weights) = 2
    /\ DotProduct(args, neuron.weights) + neuron.bias < 0
    /\ ret = Returned(0)

\* C6: a network with no layers returns from propagate the very vector it was
\* given; Network::random on a topology of length 0 or 1 builds such a network
\* without failing and without drawing from the randomness source.
C6_EmptyNetworkIdentity ==
    /\ (built = "random" /\ Len(topology) < 2) =>
        /\ network.layers = <<>>
        /\ rng = SeededRng(seed)
        /\ rng.draws = 0
    /\ (InCall /\ network.layers = <<>>) =>
        /\ pc # "panicked"
        /\ pc = "returned" => output = Returned(inputs)

C6_Witness ==
    /\ built = "random"
    /\ Len(topology) = 1
    /\ topology[1].input_neurons = 1
    /\ topology[1].output_neurons = 1
    /\ pc = "returned"
    /\ inputs = <<2, -1>>
    /\ output = Returned(<<2, -1>>)

\* C7: on an input as long as every neuron's weights, Layer::propagate returns
\* one element per neuron, element i being what neuron i's propagate returns on
\* that input.
C7_LayerFanOut ==
    (/\ pc = "layer"
     /\ ret # NotCalled
     /\ \A j \in 1..Len(layer.neurons) : Len(layer.neurons[j].weights) = Len(args))
        =>
        /\ ret.panicked = FALSE
        /\ Len(ret.value) = Len(layer.neurons)
        /\ \A i \in 1..Len(layer.neurons) :
            NeuronPropagate(layer.neurons[i], args) = Returned(ret.value[i])

C7_Witness ==
    /\ pc = "layer"
    /\ ret # NotCalled
    /\ Len(layer.neurons) = 2
    /\ Len(args) = 1
    /\ \A j \in 1..2 : Len(layer.neurons[j].weights) = 1
    /\ ret.panicked = FALSE
    /\ ret.value[1] > ret.value[2]
    /\ ret.value[2] > 0

\* the randomness source after k draws from seed s
RECURSIVE RngAfter(_, _)
RngAfter(s, k) == IF k = 0 THEN SeededRng(s) ELSE NextU32(RngAfter(s, k - 1))

\* the k-th value gen_range yields from seed s
Drawn(s, k) == GenRange(RngAfter(s, k - 1), -1, 1).value

\* draws taken by layer i: output_size * (input_size + 1)
LayerDraws(i) == OutputSize(i) * (InputSize(i) + 1)

\* draws taken before layer i begins
RECURSIVE DrawsBefore(_)
DrawsBefore(i) == IF i <= 1 THEN 0 ELSE DrawsBefore(i - 1) + LayerDraws(i - 1)

RECURSIVE Chain(_)
Chain(k) ==
    IF k = 0
    THEN Returned(inputs)
    ELSE LET p == Chain(k - 1)
         IN  IF p.panicked THEN Panicked
             ELSE LayerPropagate(network.layers[k], p.value)

\* C9: Network::propagate applies the layers in sequence order, layer 1 on the
\* caller's vector and each later layer on the vector the layer before it
\* returned; the value returned is the last layer's output, as long as that
\* layer's neuron count; when a layer panics no later layer is applied and no
\* vector is returned.
C9_SequentialFold ==
    /\ pc = "propagating" =>
        /\ idx <= NumLayers
        /\ Chain(idx) = Returned(acc)
        /\ output = NotCalled
    /\ pc = "returned" =>
        /\ idx = NumLayers
        /\ output = Chain(NumLayers)
        /\ output.panicked = FALSE
        /\ NumLayers >= 1 =>
            Len(output.value) = Len(network.layers[NumLayers].neurons)
    /\ pc = "panicked" =>
        /\ idx < NumLayers
        /\ Chain(idx) = Returned(acc)
        /\ Chain(idx + 1) = Panicked
        /\ output = Panicked
        /\ ~ENABLED PropagateStep
        /\ ~ENABLED PropagateReturn

C9_Witness ==
    /\ pc = "returned"
    /\ NumLayers = 2
    /\ Len(inputs) = 1
    /\ Len(network.layers[1].neurons) = 1
    /\ Len(network.layers[2].neurons) = 1
    /\ Chain(1) # Returned(inputs)
    /\ Chain(1).value[1] > 0
    /\ output = Chain(2)
    /\ output # Chain(1)

\* C10: for a network built by Network::random from a topology of length
\* N >= 2 whose interior entries have input_neurons = output_neurons (0
\* included), propagate on an input of length topology[1].output_neurons never
\* panics and returns a vector of length topology[N].input_neurons.
C10_ConsistentTopologyPropagates ==
    (/\ InCall
     /\ built = "random"
     /\ Len(topology) >= 2
     /\ InteriorConsistent(topology)
     /\ Len(inputs) = topology[1].output_neurons)
        =>
        /\ pc # "panicked"
        /\ pc = "returned" =>
            /\ output.panicked = FALSE
            /\ Len(output.value) = topology[Len(topology)].input_neurons

C10_Witness ==
    /\ pc = "returned"
    /\ built = "random"
    /\ Len(topology) = 3
    /\ topology[1].output_neurons = 1
    /\ topology[2].input_neurons = 0
    /\ topology[2].output_neurons = 0
    /\ topology[3].input_neurons = 1
    /\ Len(inputs) = 1
    /\ Len(output.value) = 1

====
